---- MODULE Spec2Model ----
(***************************************************************************)
(* Model of the GCD algorithm family (classic.c, recursive.c, stein.c),    *)
(* the shared special-case helper (math_utils.c), the analyzer             *)
(* (mdc_analyzer.c) and the validation layer (challenge_validation.c,      *)
(* challenge_implementation.c).                                            *)
(*                                                                         *)
(* MathInteger is int64_t in the source.  The model keeps a two's          *)
(* complement machine integer of IntBits bits, so LLONG_MIN, LLONG_MAX and *)
(* every overflow keep their place relative to the operands; IntBits is a  *)
(* bound of the model.  An operation whose C behaviour is undefined        *)
(* (signed overflow, LLONG_MIN / -1, left shift of a negative value) has   *)
(* the outcome kind "undefined"; a loop or recursion that revisits a state *)
(* never returns and has the outcome kind "diverges".                      *)
(* Timing fields (execution_time_ms) and the iteration counter (always 0)  *)
(* of MathResult carry no information the properties read and are left     *)
(* out.  Pointers are modelled as always valid (non-NULL).                 *)
(***************************************************************************)
EXTENDS Integers, Sequences, FiniteSets, TLC

VARIABLES a, b, call, arg, ret, g_system, g_registry, valid_executions

vars == <<a, b, call, arg, ret, g_system, g_registry, valid_executions>>

----------------------------------------------------------------------------
(* Bounds of the model *)

IntBits == 8

MaxOperand == 6

----------------------------------------------------------------------------
(* Machine integers *)

LLONG_MIN == -(2^(IntBits - 1))

LLONG_MAX == 2^(IntBits - 1) - 1

InRange(v) == v >= LLONG_MIN /\ v <= LLONG_MAX

\* The literal operands of the documented scenarios and tests.
ScenarioOperands == {-30, -20, -12, -10, 8, 13, 15, 17, 18, 48}

Operands == (-MaxOperand .. MaxOperand) \cup ScenarioOperands \cup {LLONG_MIN, LLONG_MAX}

\* Values a build may leave behind after undefined behaviour.
JunkIntegers == {LLONG_MIN, -1, 0, 1, LLONG_MAX}

Abs(v) == IF v < 0 THEN -v ELSE v

\* C99 6.5.5: the quotient truncates toward zero.
CDiv(n, d) ==
    LET q == Abs(n) \div Abs(d)
    IN  IF (n < 0) # (d < 0) THEN -q ELSE q

\* C99 6.5.5: the remainder of the truncating division: its magnitude is
\* |n| mod |d| and its sign is the sign of the dividend.
CRem(n, d) ==
    LET r == Abs(n) % Abs(d)
    IN  IF n < 0 THEN -r ELSE r

\* n / d and n % d are undefined when the quotient is not representable.
DivOverflows(n, d) == n = LLONG_MIN /\ d = -1

\* (v & 1) == 0 on a two's complement integer.
IsEven(v) == v % 2 = 0

\* v >> 1: arithmetic shift (sign-propagating, as on the reference platform).
Shr1(v) == v \div 2

----------------------------------------------------------------------------
(* Outcomes of a call *)

Returns(v) == [kind |-> "returns", returned |-> TRUE, value |-> v]

Diverges == [kind |-> "diverges", returned |-> FALSE, value |-> 0]

Undefined == [kind |-> "undefined", returned |-> FALSE, value |-> 0]

\* What a caller can observe of an outcome: undefined behaviour either never
\* returns (trap, hang) or returns some value of the result type.
Observed(o, junk) ==
    IF o.kind = "undefined"
    THEN {Undefined} \cup {[kind |-> "undefined", returned |-> TRUE, value |-> j] : j \in junk}
    ELSE {o}

----------------------------------------------------------------------------
(* Loops whose length grows with the operands (the subtraction loops and   *)
(* Stein's main loop) are run one iteration at a time on a loop state      *)
(* [status, a, b, shift, seen]; seen collects the loop-head states already *)
(* visited, so a revisited state is recognised as a loop that never ends.  *)

LoopState(x, y, shift) ==
    [status |-> "running", a |-> x, b |-> y, shift |-> shift, seen |-> {}]

\* The next loop-head state (n.a, n.b), unless the subtraction that produced
\* it left the machine range or the state (s.a, s.b) was seen before.
Advance(s, n) ==
    IF <<s.a, s.b>> \in s.seen THEN [s EXCEPT !.status = "diverges"]
    ELSE IF ~InRange(n.a) \/ ~InRange(n.b) THEN [s EXCEPT !.status = "undefined"]
    ELSE [s EXCEPT !.a = n.a, !.b = n.b, !.seen = s.seen \cup {<<s.a, s.b>>}]

----------------------------------------------------------------------------
(* classic.c: iterative Euclidean family *)

mdc_modulo_body(x, y) == [a |-> y, b |-> CRem(x, y)]

RECURSIVE mdc_modulo_loop(_, _)
mdc_modulo_loop(x, y) ==
    IF y = 0 THEN Returns(x)
    ELSE IF DivOverflows(x, y) THEN Undefined
    ELSE LET n == mdc_modulo_body(x, y) IN mdc_modulo_loop(n.a, n.b)

mdc_modulo(x, y) ==
    IF x = 0 /\ y = 0 THEN Returns(0) ELSE mdc_modulo_loop(x, y)

\* if (a > b) a = a - b; else b = b - a;
\* A slip in the loop body: a - b whichever operand is the larger.
mdc_subtracao_body_first_minus_second(x, y) == [a |-> x - y, b |-> y]

mdc_subtracao_body(x, y) ==
    IF x > y THEN [a |-> x - y, b |-> y] ELSE [a |-> x, b |-> y - x]

\* while (a != b) { body }
mdc_subtracao_step(s) ==
    IF s.a = s.b THEN [s EXCEPT !.status = "returns"]
    ELSE Advance(s, mdc_subtracao_body(s.a, s.b))

\* iterativo.c, mdc_usando_subtracao: the same loop on int operands (the
\* model keeps one machine width, IntBits, for int and long long).
mdc_usando_subtracao_step(s) ==
    IF s.a = s.b THEN [s EXCEPT !.status = "returns"]
    ELSE IF s.a > s.b THEN Advance(s, [a |-> s.a - s.b, b |-> s.b])
    ELSE Advance(s, [a |-> s.a, b |-> s.b - s.a])

\* A slip in the quotient: it is rounded down instead of toward zero.
mdc_divisao_body_floor(x, y) ==
    LET truncated == CDiv(x, y)
        quociente ==
            IF CRem(x, y) # 0 /\ ((x < 0) # (y < 0)) THEN truncated - 1 ELSE truncated
        resto == x - y * quociente
    IN  [a |-> y, b |-> resto]

mdc_divisao_body(x, y) ==
    LET quociente == CDiv(x, y)
        resto == x - y * quociente
    IN  [a |-> y, b |-> resto]

RECURSIVE mdc_divisao_loop(_, _)
mdc_divisao_loop(x, y) ==
    IF y = 0 THEN Returns(x)
    ELSE IF DivOverflows(x, y) THEN Undefined
    ELSE LET n == mdc_divisao_body(x, y) IN mdc_divisao_loop(n.a, n.b)

mdc_divisao(x, y) ==
    IF x = 0 /\ y = 0 THEN Returns(0) ELSE mdc_divisao_loop(x, y)

\* The (a, b) states at the loop head of mdc_modulo, entry to exit.
RECURSIVE mdc_modulo_walk(_, _)
mdc_modulo_walk(x, y) ==
    IF y = 0 \/ DivOverflows(x, y) THEN << <<x, y>> >>
    ELSE LET n == mdc_modulo_body(x, y) IN << <<x, y>> >> \o mdc_modulo_walk(n.a, n.b)

mdc_modulo_states(x, y) ==
    IF x = 0 /\ y = 0 THEN << >> ELSE mdc_modulo_walk(x, y)

\* The (a, b) states at the loop head of mdc_divisao, entry to exit.
RECURSIVE mdc_divisao_walk(_, _)
mdc_divisao_walk(x, y) ==
    IF y = 0 \/ DivOverflows(x, y) THEN << <<x, y>> >>
    ELSE LET n == mdc_divisao_body(x, y) IN << <<x, y>> >> \o mdc_divisao_walk(n.a, n.b)

mdc_divisao_states(x, y) ==
    IF x = 0 /\ y = 0 THEN << >> ELSE mdc_divisao_walk(x, y)

----------------------------------------------------------------------------
(* recursive.c: recursive Euclidean family *)

RECURSIVE mdc_mod(_, _)
mdc_mod(x, y) ==
    IF y = 0 THEN Returns(x)
    ELSE IF DivOverflows(x, y) THEN Undefined
    ELSE mdc_mod(y, CRem(x, y))

\* A slip in mdc_sub: mdc_sub(a - b, b) whichever argument is the larger.
mdc_sub_step_first_minus_second(s) ==
    IF s.a = s.b THEN [s EXCEPT !.status = "returns"]
    ELSE Advance(s, [a |-> s.a - s.b, b |-> s.b])

\* One call of mdc_sub: return a, or the arguments of the recursive call.
mdc_sub_step(s) ==
    IF s.a = s.b THEN [s EXCEPT !.status = "returns"]
    ELSE IF s.a > s.b THEN Advance(s, [a |-> s.a - s.b, b |-> s.b])
    ELSE Advance(s, [a |-> s.a, b |-> s.b - s.a])

ExtValue(g, x, y) == [gcd |-> g, x |-> x, y |-> y]

\* A slip in the back-substitution: *y = x1 + (a / b) * y1.
mdc_ext_back_substitution_plus(x, y, g, x1, y1) ==
    LET prod == CDiv(x, y) * y1
    IN  IF ~InRange(prod) \/ ~InRange(x1 + prod) THEN Undefined
        ELSE Returns(ExtValue(g, y1, x1 + prod))

\* *x = y1; *y = x1 - (a / b) * y1; return gcd;
mdc_ext_back_substitution(x, y, g, x1, y1) ==
    LET prod == CDiv(x, y) * y1
    IN  IF ~InRange(prod) \/ ~InRange(x1 - prod) THEN Undefined
        ELSE Returns(ExtValue(g, y1, x1 - prod))

RECURSIVE mdc_ext(_, _)
mdc_ext(x, y) ==
    IF y = 0 THEN Returns(ExtValue(x, 1, 0))
    ELSE IF DivOverflows(x, y) THEN Undefined
    ELSE LET r == mdc_ext(y, CRem(x, y))
         IN  IF r.kind # "returns" THEN r
             ELSE mdc_ext_back_substitution(x, y, r.value.gcd, r.value.x, r.value.y)

----------------------------------------------------------------------------
(* stein.c: binary GCD *)

\* while (((a | b) & 1) == 0) { a >>= 1; b >>= 1; shift++; }
RECURSIVE stein_common_twos(_, _, _)
stein_common_twos(x, y, shift) ==
    IF IsEven(x) /\ IsEven(y)
    THEN stein_common_twos(Shr1(x), Shr1(y), shift + 1)
    ELSE [a |-> x, b |-> y, shift |-> shift]

\* while ((v & 1) == 0) v >>= 1;   (v is non-zero where the code runs this)
RECURSIVE stein_strip_twos(_)
stein_strip_twos(v) == IF IsEven(v) THEN stein_strip_twos(Shr1(v)) ELSE v

\* One iteration of the main loop: strip b, then subtract the smaller.
mdc_stein_body(x, y) ==
    LET sb == stein_strip_twos(y)
    IN  IF x > sb THEN [a |-> x - sb, b |-> sb] ELSE [a |-> x, b |-> sb - x]

\* while (b != 0) { body }
mdc_stein_step(s) ==
    IF s.b = 0 THEN [s EXCEPT !.status = "returns"]
    ELSE Advance(s, mdc_stein_body(s.a, s.b))

\* A slip in the last line: return a; (the common factors of two are lost).
stein_restore_no_shift(x, shift) ==
    IF x < 0 THEN Undefined ELSE Returns(x)

\* return a << shift;  C11 6.5.7p4: undefined for a negative a or when
\* a * 2^shift is not representable.
stein_restore(x, shift) ==
    IF x < 0 \/ ~InRange(x * 2^shift) THEN Undefined ELSE Returns(x * 2^shift)

----------------------------------------------------------------------------
(* Running a loop to its end *)

LoopStep(f, s) ==
    CASE f = "mdc_subtracao" -> mdc_subtracao_step(s)
      [] f = "mdc_usando_subtracao" -> mdc_usando_subtracao_step(s)
      [] f = "mdc_sub" -> mdc_sub_step(s)
      [] f = "mdc_stein" -> mdc_stein_step(s)

\* No loop runs LoopFuel iterations without ending, overflowing or
\* revisiting a state (FuelSuffices checks it on every call made).
LoopFuel == 2^(IntBits + 1)

\* n iterations from s, stopping where the loop stops.
RECURSIVE Iterate(_, _, _)
Iterate(f, s, n) ==
    IF s.status # "running" THEN s
    ELSE IF n <= 1 THEN LoopStep(f, s)
    ELSE Iterate(f, Iterate(f, s, n \div 2), n - (n \div 2))

RunLoop(f, x, y, shift) == Iterate(f, LoopState(x, y, shift), LoopFuel)

LoopOutcome(s, result) ==
    CASE s.status = "returns" -> result
      [] s.status = "diverges" -> Diverges
      [] s.status = "undefined" -> Undefined
      [] OTHER -> [kind |-> "running", returned |-> FALSE, value |-> 0]

mdc_subtracao(x, y) ==
    IF (x < 0 /\ ~InRange(-x)) \/ (y < 0 /\ ~InRange(-y)) THEN Undefined
    ELSE LET ax == IF x < 0 THEN -x ELSE x
             ay == IF y < 0 THEN -y ELSE y
         IN  IF ax = 0 /\ ay = 0 THEN Returns(0)
             ELSE LET s == RunLoop("mdc_subtracao", ax, ay, 0)
                  IN  LoopOutcome(s, Returns(s.a))

\* iterativo.c: int mdc_usando_subtracao(int a, int b)
mdc_usando_subtracao(x, y) ==
    IF x < 0 /\ ~InRange(-x) THEN Undefined
    ELSE IF y < 0 /\ ~InRange(-y) THEN Undefined
    ELSE LET ax == IF x < 0 THEN -x ELSE x
             ay == IF y < 0 THEN -y ELSE y
         IN  IF ax = 0 /\ ay = 0 THEN Returns(0)
             ELSE LET s == RunLoop("mdc_usando_subtracao", ax, ay, 0)
                  IN  LoopOutcome(s, Returns(s.a))

mdc_sub(x, y) ==
    LET s == RunLoop("mdc_sub", x, y, 0) IN LoopOutcome(s, Returns(s.a))

\* The loop of mdc_subtracao(x, y) run to its end, after the two sign tests
\* (x and y are not LLONG_MIN and not both zero): seen holds the (a, b) with
\* which an iteration was started, (a, b) is the state the loop ended in.
mdc_subtracao_loop(x, y) == RunLoop("mdc_subtracao", Abs(x), Abs(y), 0)

\* The calls of mdc_sub(x, y) to the last one: seen holds the arguments of
\* the calls that recursed, (a, b) those of the last call.
mdc_sub_loop(x, y) == RunLoop("mdc_sub", x, y, 0)

mdc_stein(x, y) ==
    IF x = 0 THEN Returns(y)
    ELSE IF y = 0 THEN Returns(x)
    ELSE LET c == stein_common_twos(x, y, 0)
             s == RunLoop("mdc_stein", stein_strip_twos(c.a), c.b, c.shift)
         IN  LoopOutcome(s, stein_restore(s.a, s.shift))

\* The main loop of mdc_stein(x, y) run to its end (x and y non-zero): seen
\* holds the (a, b) with which an iteration of while (b != 0) was started.
mdc_stein_loop(x, y) ==
    LET c == stein_common_twos(x, y, 0)
    IN  RunLoop("mdc_stein", stein_strip_twos(c.a), c.b, c.shift)

----------------------------------------------------------------------------
(* The six functions of type GcdAlgorithmFunc, by name *)

AlgorithmNames ==
    {"mdc_modulo", "mdc_subtracao", "mdc_divisao", "mdc_mod", "mdc_sub", "mdc_stein"}

Algorithm(f, x, y) ==
    CASE f = "mdc_modulo" -> mdc_modulo(x, y)
      [] f = "mdc_subtracao" -> mdc_subtracao(x, y)
      [] f = "mdc_divisao" -> mdc_divisao(x, y)
      [] f = "mdc_mod" -> mdc_mod(x, y)
      [] f = "mdc_sub" -> mdc_sub(x, y)
      [] f = "mdc_stein" -> mdc_stein(x, y)

----------------------------------------------------------------------------
(* mathematical_types.h, math_utils.c: results and the special cases *)

MATH_SUCCESS == 0

MATH_ERROR_OVERFLOW == 3

MATH_ERROR_NOT_IMPLEMENTED == 8

MATH_INVALID_VALUE == -1

MATH_IS_VALID_RESULT(r) == r.is_valid /\ r.status = MATH_SUCCESS

\* MATH_ABS(x): ((x) < 0 ? -(x) : (x)); the negation of LLONG_MIN overflows.
MATH_ABS(v) ==
    IF v < 0 THEN (IF InRange(-v) THEN Returns(-v) ELSE Undefined) ELSE Returns(v)

math_create_success_result(v) ==
    [value |-> v, status |-> MATH_SUCCESS, is_valid |-> TRUE]

math_create_error_result(error_status) ==
    [value |-> MATH_INVALID_VALUE, status |-> error_status, is_valid |-> FALSE]

math_safe_abs(v) ==
    IF v = LLONG_MIN THEN [status |-> MATH_ERROR_OVERFLOW, result |-> 0]
    ELSE [status |-> MATH_SUCCESS, result |-> IF v < 0 THEN -v ELSE v]

\* A slip in the shortcut: the absolute value is stored without the
\* LLONG_MIN test of math_safe_abs.
special_abs_result_unchecked(v) == math_create_success_result(Abs(v))

\* *result = |v| as a success result, or the overflow error result.
special_abs_result(v) ==
    LET r == math_safe_abs(v)
    IN  IF r.status # MATH_SUCCESS THEN math_create_error_result(MATH_ERROR_OVERFLOW)
        ELSE math_create_success_result(r.result)

Handled(r) == Returns([handled |-> TRUE, result |-> r])

NotHandled == Returns([handled |-> FALSE])

\* A slip in the a == b case: *result takes a itself, not |a|.
math_handle_gcd_special_cases_signed(x, y) ==
    IF x = 0 /\ y = 0 THEN Handled(math_create_success_result(0))
    ELSE IF y = 0 THEN Handled(special_abs_result(x))
    ELSE IF x = 0 THEN Handled(special_abs_result(y))
    ELSE IF x = y THEN Handled(math_create_success_result(x))
    ELSE LET absx == MATH_ABS(x)
             absy == MATH_ABS(y)
         IN  IF absx.kind # "returns" THEN absx
             ELSE IF absx.value = 1 THEN Handled(math_create_success_result(1))
             ELSE IF absy.kind # "returns" THEN absy
             ELSE IF absy.value = 1 THEN Handled(math_create_success_result(1))
             ELSE NotHandled

math_handle_gcd_special_cases(x, y) ==
    IF x = 0 /\ y = 0 THEN Handled(math_create_success_result(0))
    ELSE IF y = 0 THEN Handled(special_abs_result(x))
    ELSE IF x = 0 THEN Handled(special_abs_result(y))
    ELSE IF x = y THEN Handled(special_abs_result(x))
    ELSE LET absx == MATH_ABS(x)
             absy == MATH_ABS(y)
         IN  IF absx.kind # "returns" THEN absx
             ELSE IF absx.value = 1 THEN Handled(math_create_success_result(1))
             ELSE IF absy.kind # "returns" THEN absy
             ELSE IF absy.value = 1 THEN Handled(math_create_success_result(1))
             ELSE NotHandled

----------------------------------------------------------------------------
(* classic.c, recursive.c, stein.c: the compute wrappers *)

\* The body the seven wrappers share: the special cases first, then the
\* algorithm, whose value becomes a success result.
compute_wrapper(x, y, algorithm) ==
    LET special == math_handle_gcd_special_cases(x, y)
    IN  IF special.kind # "returns" THEN special
        ELSE IF special.value.handled THEN Returns(special.value.result)
        ELSE IF algorithm.kind # "returns" THEN algorithm
        ELSE Returns(math_create_success_result(algorithm.value))

euclidean_modulo_compute(x, y) == compute_wrapper(x, y, mdc_modulo(x, y))

euclidean_subtraction_compute(x, y) == compute_wrapper(x, y, mdc_subtracao(x, y))

euclidean_division_compute(x, y) == compute_wrapper(x, y, mdc_divisao(x, y))

euclidean_recursive_modulo_compute(x, y) == compute_wrapper(x, y, mdc_mod(x, y))

euclidean_recursive_subtraction_compute(x, y) == compute_wrapper(x, y, mdc_sub(x, y))

\* GcdInteger result = mdc_ext(a, b, &x, &y): the coefficients are dropped.
mdc_ext_gcd(x, y) ==
    LET r == mdc_ext(x, y)
    IN  IF r.kind # "returns" THEN r ELSE Returns(r.value.gcd)

euclidean_extended_compute(x, y) == compute_wrapper(x, y, mdc_ext_gcd(x, y))

\* while (max_operand > 0) { max_operand >>= 1; bit_count++; }
RECURSIVE stein_bit_count(_)
stein_bit_count(v) == IF v > 0 THEN 1 + stein_bit_count(Shr1(v)) ELSE 0

\* stein.c: stein_estimate_iterations(a, b)
stein_estimate_iterations(x, y) ==
    IF x = 0 \/ y = 0 THEN Returns(0)
    ELSE LET absx == MATH_ABS(x)
             absy == MATH_ABS(y)
         IN  IF absx.kind # "returns" THEN absx
             ELSE IF absy.kind # "returns" THEN absy
             ELSE Returns(2 * stein_bit_count(IF absx.value > absy.value
                                              THEN absx.value ELSE absy.value))

stein_binary_compute(x, y) == compute_wrapper(x, y, mdc_stein(x, y))

EXTENDED_GCD_INIT(g, x, y) ==
    [gcd |-> g, coefficient_x |-> x, coefficient_y |-> y, is_valid |-> TRUE]

euclidean_extended_compute_full(x, y) ==
    IF x = 0 /\ y = 0 THEN Returns(EXTENDED_GCD_INIT(0, 0, 0))
    ELSE LET r == mdc_ext(x, y)
         IN  IF r.kind # "returns" THEN r
             ELSE Returns(EXTENDED_GCD_INIT(r.value.gcd, r.value.x, r.value.y))

----------------------------------------------------------------------------
(* domain_types.h, mdc_analyzer.c *)

GCD_EUCLIDEAN_MODULO == 0

GCD_EUCLIDEAN_SUBTRACTION == 1

GCD_EUCLIDEAN_DIVISION == 2

GCD_BINARY_STEIN == 3

GCD_RECURSIVE_MODULO == 4

GCD_RECURSIVE_SUBTRACTION == 5

GCD_EXTENDED_EUCLIDEAN == 6

GcdAlgorithmVariant == GCD_EUCLIDEAN_MODULO .. GCD_EXTENDED_EUCLIDEAN

mdc_analyzer_execute_algorithm(variant, x, y) ==
    CASE variant = GCD_EUCLIDEAN_MODULO -> euclidean_modulo_compute(x, y)
      [] variant = GCD_EUCLIDEAN_SUBTRACTION -> euclidean_subtraction_compute(x, y)
      [] variant = GCD_EUCLIDEAN_DIVISION -> euclidean_division_compute(x, y)
      [] variant = GCD_RECURSIVE_MODULO -> euclidean_recursive_modulo_compute(x, y)
      [] variant = GCD_RECURSIVE_SUBTRACTION -> euclidean_recursive_subtraction_compute(x, y)
      [] variant = GCD_EXTENDED_EUCLIDEAN -> euclidean_extended_compute(x, y)
      [] variant = GCD_BINARY_STEIN -> stein_binary_compute(x, y)
      [] OTHER -> Returns(math_create_error_result(MATH_ERROR_NOT_IMPLEMENTED))

\* GcdAlgorithmVariant variants[] of mdc_analyzer_execute_all, in its order.
execute_all_variants ==
    <<GCD_EUCLIDEAN_MODULO, GCD_EUCLIDEAN_SUBTRACTION, GCD_EUCLIDEAN_DIVISION,
      GCD_RECURSIVE_MODULO, GCD_RECURSIVE_SUBTRACTION, GCD_EXTENDED_EUCLIDEAN,
      GCD_BINARY_STEIN>>

\* for (i = 0; i < variant_count && count < max_results; i++)
RECURSIVE execute_all_loop(_, _, _, _, _)
RECURSIVE benchmark_loop(_, _, _, _, _, _)
execute_all_loop(x, y, i, results, max_results) ==
    IF i > Len(execute_all_variants) \/ Len(results) >= max_results
    THEN Returns([count |-> Len(results), results |-> results])
    ELSE LET r == mdc_analyzer_execute_algorithm(execute_all_variants[i], x, y)
         IN  IF r.kind # "returns" THEN r
             ELSE execute_all_loop(x, y, i + 1, Append(results, r.value), max_results)

mdc_analyzer_execute_all(x, y, max_results) ==
    IF max_results = 0 THEN Returns([count |-> 0, results |-> <<>>])
    ELSE execute_all_loop(x, y, 1, <<>>, max_results)

mdc_analyzer_validate_consistency(results) ==
    IF Len(results) = 0 THEN FALSE
    ELSE LET valid == {i \in 1 .. Len(results) : MATH_IS_VALID_RESULT(results[i])}
             first == CHOOSE i \in valid : \A j \in valid : i <= j
             reference_value ==
                 IF valid = {} THEN MATH_INVALID_VALUE ELSE results[first].value
         IN  IF reference_value = MATH_INVALID_VALUE THEN FALSE
             ELSE \A i \in valid : results[i].value = reference_value

----------------------------------------------------------------------------
(* challenge_validation.c: the validation layer *)

\* if (a == LLONG_MIN && b == LLONG_MIN) return false; return true;
gcd_validate_input(x, y) == ~(x = LLONG_MIN /\ y = LLONG_MIN)

\* v < 0 ? -v : v on a GcdInteger; the negation of LLONG_MIN overflows.
abs_value(v) == MATH_ABS(v)

\* while (abs_b != 0) { temp = abs_b; abs_b = abs_a % abs_b; abs_a = temp; }
RECURSIVE reference_loop(_, _)
reference_loop(x, y) ==
    IF y = 0 THEN x ELSE reference_loop(y, CRem(x, y))

\* A slip in the reference: the loop runs on the signed operands.
gcd_reference_signed(x, y) ==
    IF x = 0 /\ y = 0 THEN Returns(0)
    ELSE IF x = 0 THEN Returns(y)
    ELSE IF y = 0 THEN Returns(x)
    ELSE Returns(reference_loop(x, y))

gcd_reference_implementation(x, y) ==
    IF x = 0 /\ y = 0 THEN Returns(0)
    ELSE LET abs_a == abs_value(x)
             abs_b == abs_value(y)
         IN  IF abs_a.kind # "returns" THEN abs_a
             ELSE IF abs_b.kind # "returns" THEN abs_b
             ELSE IF abs_a.value = 0 THEN Returns(abs_b.value)
             ELSE IF abs_b.value = 0 THEN Returns(abs_a.value)
             ELSE Returns(reference_loop(abs_a.value, abs_b.value))

\* *result = (v < 0) ? -v : v; return true;
edge_case_abs(v) ==
    LET r == abs_value(v)
    IN  IF r.kind # "returns" THEN r ELSE Handled(r.value)

gcd_handle_edge_cases(x, y) ==
    IF x = 0 /\ y = 0 THEN Handled(0)
    ELSE IF y = 0 THEN edge_case_abs(x)
    ELSE IF x = 0 THEN edge_case_abs(y)
    ELSE IF x = y THEN edge_case_abs(x)
    ELSE IF x = 1 \/ x = -1 \/ y = 1 \/ y = -1 THEN Handled(1)
    ELSE IF x = LLONG_MIN \/ y = LLONG_MIN
         THEN LET r == gcd_reference_implementation(x, y)
              IN  IF r.kind # "returns" THEN r ELSE Handled(r.value)
    ELSE NotHandled

\* A slip in the validator: the maximality check is left out.
gcd_validate_result_divisor_only(x, y, result) ==
    IF x = 0 /\ y = 0 THEN Returns(result = 0)
    ELSE IF result <= 0 THEN Returns(FALSE)
    ELSE LET abs_a == abs_value(x)
             abs_b == abs_value(y)
         IN  IF abs_a.kind # "returns" THEN abs_a
             ELSE IF abs_b.kind # "returns" THEN abs_b
             ELSE IF x = 0 THEN Returns(result = abs_b.value)
             ELSE IF y = 0 THEN Returns(result = abs_a.value)
             ELSE Returns(CRem(abs_a.value, result) = 0 /\ CRem(abs_b.value, result) = 0)

gcd_validate_result(x, y, result) ==
    IF x = 0 /\ y = 0 THEN Returns(result = 0)
    ELSE IF result <= 0 THEN Returns(FALSE)
    ELSE LET abs_a == abs_value(x)
             abs_b == abs_value(y)
         IN  IF abs_a.kind # "returns" THEN abs_a
             ELSE IF abs_b.kind # "returns" THEN abs_b
             ELSE IF x = 0 THEN Returns(result = abs_b.value)
             ELSE IF y = 0 THEN Returns(result = abs_a.value)
             ELSE IF CRem(abs_a.value, result) # 0 \/ CRem(abs_b.value, result) # 0
                  THEN Returns(FALSE)
             ELSE LET reduced_a == CDiv(abs_a.value, result)
                      reduced_b == CDiv(abs_b.value, result)
                      gcd_reduced == gcd_reference_implementation(reduced_a, reduced_b)
                  IN  IF gcd_reduced.kind # "returns" THEN gcd_reduced
                      ELSE Returns(gcd_reduced.value = 1)

\* a * x + b * y in GcdInteger arithmetic: undefined when a product or the
\* sum is not representable.
bezout_left_side(x, y, cx, cy) ==
    IF ~InRange(x * cx) \/ ~InRange(y * cy) \/ ~InRange(x * cx + y * cy) THEN Undefined
    ELSE Returns(x * cx + y * cy)

gcd_validate_extended_result(x, y, ext_result) ==
    IF ~ext_result.is_valid THEN Returns(FALSE)
    ELSE LET basic == gcd_validate_result(x, y, ext_result.gcd)
             left_side ==
                 bezout_left_side(x, y, ext_result.coefficient_x, ext_result.coefficient_y)
         IN  IF basic.kind # "returns" THEN basic
             ELSE IF ~basic.value THEN Returns(FALSE)
             ELSE IF left_side.kind # "returns" THEN left_side
             ELSE Returns(left_side.value = ext_result.gcd)

gcd_check_fundamental_properties(x, y, result) ==
    LET basic == gcd_validate_result(x, y, result)
        reverse_result == gcd_reference_implementation(y, x)
        abs_a == abs_value(x)
        abs_b == abs_value(y)
    IN  IF basic.kind # "returns" THEN basic
        ELSE IF ~basic.value THEN Returns(FALSE)
        ELSE IF reverse_result.kind # "returns" THEN reverse_result
        ELSE IF result # reverse_result.value THEN Returns(FALSE)
        ELSE IF y = 0 /\ abs_a.kind # "returns" THEN abs_a
        ELSE IF y = 0 /\ result # abs_a.value THEN Returns(FALSE)
        ELSE IF x = 0 /\ abs_b.kind # "returns" THEN abs_b
        ELSE IF x = 0 /\ result # abs_b.value THEN Returns(FALSE)
        ELSE Returns(TRUE)

----------------------------------------------------------------------------
(* challenge_implementation.c: the second definition of the same functions *)

\* if (a == LLONG_MIN || b == LLONG_MIN) return false; return true;
impl_gcd_validate_input(x, y) == ~(x = LLONG_MIN \/ y = LLONG_MIN)

impl_gcd_reference_implementation(x, y) ==
    IF x = 0 /\ y = 0 THEN Returns(0)
    ELSE LET abs_a == abs_value(x)
             abs_b == abs_value(y)
         IN  IF abs_a.kind # "returns" THEN abs_a
             ELSE IF abs_b.kind # "returns" THEN abs_b
             ELSE IF abs_a.value = 0 THEN Returns(abs_b.value)
             ELSE IF abs_b.value = 0 THEN Returns(abs_a.value)
             ELSE Returns(reference_loop(abs_a.value, abs_b.value))

impl_gcd_handle_edge_cases(x, y) ==
    IF x = 0 /\ y = 0 THEN Handled(0)
    ELSE IF y = 0 THEN edge_case_abs(x)
    ELSE IF x = 0 THEN edge_case_abs(y)
    ELSE IF x = y THEN edge_case_abs(x)
    ELSE LET abs_a == abs_value(x)
             abs_b == abs_value(y)
         IN  IF abs_a.kind # "returns" THEN abs_a
             ELSE IF abs_b.kind # "returns" THEN abs_b
             ELSE IF abs_a.value = 1 \/ abs_b.value = 1 THEN Handled(1)
             ELSE NotHandled

impl_gcd_validate_result(x, y, result) ==
    IF x = 0 /\ y = 0 THEN Returns(result = 0)
    ELSE IF result <= 0 THEN Returns(FALSE)
    ELSE LET abs_a == abs_value(x)
             abs_b == abs_value(y)
         IN  IF abs_a.kind # "returns" THEN abs_a
             ELSE IF abs_b.kind # "returns" THEN abs_b
             ELSE IF x # 0 /\ CRem(abs_a.value, result) # 0 THEN Returns(FALSE)
             ELSE IF y # 0 /\ CRem(abs_b.value, result) # 0 THEN Returns(FALSE)
             ELSE LET min_operand ==
                          IF abs_a.value < abs_b.value THEN abs_a.value ELSE abs_b.value
                  IN  IF x # 0 /\ y # 0 /\ result > min_operand THEN Returns(FALSE)
                      ELSE IF x = 0 /\ y # 0 THEN Returns(result = abs_b.value)
                      ELSE IF y = 0 /\ x # 0 THEN Returns(result = abs_a.value)
                      ELSE Returns(TRUE)

\* A slip in the check: the comparison with the reference is left out.
impl_check_without_reference(x, y, result) == impl_gcd_validate_result(x, y, result)

impl_gcd_check_fundamental_properties(x, y, result) ==
    LET basic == impl_gcd_validate_result(x, y, result)
        reverse_result == impl_gcd_reference_implementation(y, x)
    IN  IF basic.kind # "returns" THEN basic
        ELSE IF ~basic.value THEN Returns(FALSE)
        ELSE IF reverse_result.kind # "returns" THEN reverse_result
        ELSE Returns(result = reverse_result.value)

\* The two translation units that define the validation functions.
Definitions == {"challenge_validation", "challenge_implementation"}

validate_input(def, x, y) ==
    IF def = "challenge_validation" THEN gcd_validate_input(x, y)
    ELSE impl_gcd_validate_input(x, y)

validate_result(def, x, y, result) ==
    IF def = "challenge_validation" THEN gcd_validate_result(x, y, result)
    ELSE impl_gcd_validate_result(x, y, result)

check_fundamental_properties(def, x, y, result) ==
    IF def = "challenge_validation" THEN gcd_check_fundamental_properties(x, y, result)
    ELSE impl_gcd_check_fundamental_properties(x, y, result)

reference_implementation(def, x, y) ==
    IF def = "challenge_validation" THEN gcd_reference_implementation(x, y)
    ELSE impl_gcd_reference_implementation(x, y)

----------------------------------------------------------------------------
(* solution_registry.c: the registry (static g_registry) *)

\* static GcdSolutionRegistry g_registry = {0}; entry_count is Len(entries).
RegistryZero == [entries |-> << >>, is_initialized |-> FALSE]

\* The seven entries gcd_registry_init writes, in its order.
RegisteredEntries ==
    <<[variant |-> GCD_EUCLIDEAN_MODULO, implementation |-> "euclidean_modulo_spec",
       is_available |-> TRUE],
      [variant |-> GCD_EUCLIDEAN_SUBTRACTION, implementation |-> "euclidean_subtraction_spec",
       is_available |-> TRUE],
      [variant |-> GCD_EUCLIDEAN_DIVISION, implementation |-> "euclidean_division_spec",
       is_available |-> TRUE],
      [variant |-> GCD_RECURSIVE_MODULO, implementation |-> "euclidean_recursive_modulo_spec",
       is_available |-> TRUE],
      [variant |-> GCD_RECURSIVE_SUBTRACTION,
       implementation |-> "euclidean_recursive_subtraction_spec", is_available |-> TRUE],
      [variant |-> GCD_EXTENDED_EUCLIDEAN, implementation |-> "euclidean_extended_spec",
       is_available |-> TRUE],
      [variant |-> GCD_BINARY_STEIN, implementation |-> "stein_binary_spec",
       is_available |-> TRUE]>>

\* A slip in gcd_registry_init: no is_initialized test and no memset, so a
\* second call registers the seven entries again.
gcd_registry_init_appends(reg) ==
    [entries |-> reg.entries \o RegisteredEntries, is_initialized |-> TRUE]

\* The registry after gcd_registry_init() (its status is always MATH_SUCCESS).
gcd_registry_init(reg) ==
    IF reg.is_initialized THEN reg
    ELSE [entries |-> RegisteredEntries, is_initialized |-> TRUE]

\* spec->compute(&input), by the ImplementationSpec the entry points to.
spec_compute(spec, x, y) ==
    CASE spec = "euclidean_modulo_spec" -> euclidean_modulo_compute(x, y)
      [] spec = "euclidean_subtraction_spec" -> euclidean_subtraction_compute(x, y)
      [] spec = "euclidean_division_spec" -> euclidean_division_compute(x, y)
      [] spec = "euclidean_recursive_modulo_spec" -> euclidean_recursive_modulo_compute(x, y)
      [] spec = "euclidean_recursive_subtraction_spec" ->
             euclidean_recursive_subtraction_compute(x, y)
      [] spec = "euclidean_extended_spec" -> euclidean_extended_compute(x, y)
      [] spec = "stein_binary_spec" -> stein_binary_compute(x, y)

\* Operands the coordinator is called with.
SystemOperands == {-12, -3, 0, 2, 8, 18, 48, LLONG_MIN}

\* spec->compute(&input) for each registered spec and operand pair, evaluated
\* once: the compute functions read nothing but their input.
ComputeOutcomes ==
    [spec \in {RegisteredEntries[i].implementation : i \in 1 .. Len(RegisteredEntries)},
     x \in SystemOperands, y \in SystemOperands |-> spec_compute(spec, x, y)]

\* The registry after the call and the spec found ("NULL" when none is).
gcd_registry_get_implementation(reg, variant) ==
    LET ready == IF ~reg.is_initialized THEN gcd_registry_init(reg) ELSE reg
        found == {i \in 1 .. Len(ready.entries) :
                     ready.entries[i].variant = variant /\ ready.entries[i].is_available}
        first == CHOOSE i \in found : \A j \in found : i <= j
    IN  [registry |-> ready,
         spec |-> IF found = {} THEN "NULL" ELSE ready.entries[first].implementation]

gcd_registry_execute(reg, variant, x, y) ==
    LET found == gcd_registry_get_implementation(reg, variant)
    IN  [registry |-> found.registry,
         result |-> IF found.spec = "NULL"
                    THEN Returns(math_create_error_result(MATH_ERROR_NOT_IMPLEMENTED))
                    ELSE ComputeOutcomes[found.spec, x, y]]

MAX_REGISTERED_IMPLEMENTATIONS == 16

\* The registry as the listing and counting functions leave it: each starts
\* with if (!gcd_registry_is_initialized()) gcd_registry_init();
registry_auto_init(reg) == IF ~reg.is_initialized THEN gcd_registry_init(reg) ELSE reg

\* The number of entries with is_available set.
available_count(reg) ==
    Cardinality({i \in 1 .. Len(reg.entries) : reg.entries[i].is_available})

\* The registry after gcd_registry_get_count(), and the count returned.
gcd_registry_get_count(reg) ==
    [registry |-> registry_auto_init(reg),
     count |-> available_count(registry_auto_init(reg))]

\* The registry after gcd_registry_list_variants(variants, max_variants), and
\* the count returned (variants is not NULL).
gcd_registry_list_variants(reg, max_variants) ==
    [registry |-> registry_auto_init(reg),
     count |-> IF max_variants = 0 THEN Len(registry_auto_init(reg).entries)
               ELSE IF available_count(registry_auto_init(reg)) < max_variants
               THEN available_count(registry_auto_init(reg))
               ELSE max_variants]

\* metadata.name of each registered ImplementationSpec.
implementation_name(spec) ==
    CASE spec = "euclidean_modulo_spec" -> "Euclidean Modulo"
      [] spec = "euclidean_subtraction_spec" -> "Euclidean Subtraction"
      [] spec = "euclidean_division_spec" -> "Euclidean Division"
      [] spec = "euclidean_recursive_modulo_spec" -> "Recursive Euclidean Modulo"
      [] spec = "euclidean_recursive_subtraction_spec" -> "Recursive Euclidean Subtraction"
      [] spec = "euclidean_extended_spec" -> "Extended Euclidean"
      [] spec = "stein_binary_spec" -> "Stein Binary GCD"

\* The registry after the call and the spec found by name (name is not NULL).
gcd_registry_get_implementation_by_name(reg, name) ==
    LET ready == registry_auto_init(reg)
        found == {i \in 1 .. Len(ready.entries) :
                     /\ ready.entries[i].is_available
                     /\ implementation_name(ready.entries[i].implementation) = name}
        first == CHOOSE i \in found : \A j \in found : i <= j
    IN  [registry |-> ready,
         spec |-> IF found = {} THEN "NULL" ELSE ready.entries[first].implementation]

gcd_registry_execute_by_name(reg, name, x, y) ==
    LET found == gcd_registry_get_implementation_by_name(reg, name)
    IN  [registry |-> found.registry,
         result |-> IF found.spec = "NULL"
                    THEN Returns(math_create_error_result(MATH_ERROR_NOT_IMPLEMENTED))
                    ELSE ComputeOutcomes[found.spec, x, y]]

----------------------------------------------------------------------------
(* system_coordinator.c: the coordinator (static g_system); the timing     *)
(* total total_execution_time is left out with the other timing fields.    *)

\* Two runs of the system side by side, each with its own g_system and
\* g_registry, so that calls after different histories can be compared.
Runs == {1, 2}

\* static SystemState g_system = {0};
SystemStateZero ==
    [is_initialized |-> FALSE, registry_ready |-> FALSE, analyzer_ready |-> FALSE,
     total_executions |-> 0]

system_is_ready(sys) == sys.is_initialized /\ sys.registry_ready /\ sys.analyzer_ready

\* The coordinator and the registry after system_init(), and its status.
system_init(sys, reg) ==
    IF sys.is_initialized THEN [system |-> sys, registry |-> reg, status |-> MATH_SUCCESS]
    ELSE [system |-> [is_initialized |-> TRUE, registry_ready |-> TRUE,
                      analyzer_ready |-> TRUE, total_executions |-> 0],
          registry |-> gcd_registry_init(reg),
          status |-> MATH_SUCCESS]

\* What undefined behaviour leaves in one call: no return, or some result.
NoReturn == [returns |-> FALSE, junk |-> 0]

UndefinedOutcomes ==
    {NoReturn} \cup {[returns |-> TRUE, junk |-> j] : j \in JunkIntegers}

ResolveResult(o, ub) ==
    IF o.kind # "undefined" THEN o
    ELSE IF ~ub.returns THEN Undefined
    ELSE [kind |-> "undefined", returned |-> TRUE,
          value |-> math_create_success_result(ub.junk)]

\* if (MATH_IS_VALID_RESULT(result)) g_system.total_executions++; return result;
update_statistics(sys, reg, result) ==
    [system |-> IF result.returned /\ MATH_IS_VALID_RESULT(result.value)
                THEN [sys EXCEPT !.total_executions = @ + 1]
                ELSE sys,
     registry |-> reg,
     result |-> result]

\* The part of system_execute_gcd after the initialisation: exec is what
\* gcd_registry_execute(variant, a, b) left and returned.
execute_through_registry(sys, exec, ub) ==
    update_statistics(sys, exec.registry, ResolveResult(exec.result, ub))

\* A slip in the coordinator: a system that is not ready is an error, where
\* the code initialises it.
system_execute_gcd_requires_init(sys, reg, variant, x, y, ub) ==
    IF ~system_is_ready(sys)
    THEN [system |-> sys, registry |-> reg,
          result |-> Returns(math_create_error_result(MATH_ERROR_NOT_IMPLEMENTED))]
    ELSE execute_through_registry(sys, gcd_registry_execute(reg, variant, x, y), ub)

\* The coordinator and the registry after system_execute_gcd(variant, a, b),
\* and the outcome of the call.
system_execute_gcd(sys, reg, variant, x, y, ub) ==
    LET init == IF ~system_is_ready(sys) THEN system_init(sys, reg)
                ELSE [system |-> sys, registry |-> reg, status |-> MATH_SUCCESS]
    IN  IF init.status # MATH_SUCCESS
        THEN [system |-> init.system, registry |-> init.registry,
              result |-> Returns(math_create_error_result(init.status))]
        ELSE execute_through_registry(
                 init.system, gcd_registry_execute(init.registry, variant, x, y), ub)

\* return MATH_IS_VALID_RESULT(result) ? result.value : MATH_INVALID_VALUE;
quick_value(exec) ==
    [system |-> exec.system, registry |-> exec.registry,
     result |-> IF ~exec.result.returned THEN exec.result
                ELSE [exec.result EXCEPT
                         !.value = IF MATH_IS_VALID_RESULT(exec.result.value)
                                   THEN exec.result.value.value
                                   ELSE MATH_INVALID_VALUE]]

system_quick_gcd(sys, reg, x, y, ub) ==
    quick_value(system_execute_gcd(sys, reg, GCD_EUCLIDEAN_MODULO, x, y, ub))

\* if (!system_is_ready()) system_init(); with the status of system_init.
system_auto_init(sys, reg) ==
    IF ~system_is_ready(sys) THEN system_init(sys, reg)
    ELSE [system |-> sys, registry |-> reg, status |-> MATH_SUCCESS]

\* The coordinator and the registry after system_execute_gcd_by_name(name, a, b),
\* and the outcome of the call.
system_execute_gcd_by_name(sys, reg, name, x, y, ub) ==
    LET init == system_auto_init(sys, reg)
    IN  IF init.status # MATH_SUCCESS
        THEN [system |-> init.system, registry |-> init.registry,
              result |-> Returns(math_create_error_result(init.status))]
        ELSE execute_through_registry(
                 init.system, gcd_registry_execute_by_name(init.registry, name, x, y), ub)

\* if (result.is_valid) g_system.total_executions++; return result;
count_extended(init, result) ==
    [system |-> IF result.kind = "returns" /\ result.value.is_valid
                THEN [init.system EXCEPT !.total_executions = @ + 1]
                ELSE init.system,
     registry |-> init.registry,
     result |-> result]

system_execute_extended_gcd(sys, reg, x, y) ==
    count_extended(system_auto_init(sys, reg), euclidean_extended_compute_full(x, y))

\* g_system.total_executions += count; return count;
count_compared(init, all) ==
    [system |-> IF all.kind = "returns"
                THEN [init.system EXCEPT !.total_executions = @ + all.value.count]
                ELSE init.system,
     registry |-> init.registry,
     result |-> all]

system_compare_all_algorithms(sys, reg, x, y) ==
    count_compared(system_auto_init(sys, reg), mdc_analyzer_execute_all(x, y, 16))

\* The benchmark loop of mdc_analyzer_benchmark from variants[i] on: every
\* variant runs `iterations` times on the same operands, and is stored when
\* one of its runs was valid.
benchmark_loop(x, y, iterations, i, result_count, max_results) ==
    IF i > Len(execute_all_variants) \/ result_count >= max_results
    THEN Returns([count |-> result_count])
    ELSE LET r == mdc_analyzer_execute_algorithm(execute_all_variants[i], x, y)
         IN  IF r.kind # "returns" THEN r
             ELSE benchmark_loop(x, y, iterations, i + 1,
                                 IF MATH_IS_VALID_RESULT(r.value)
                                 THEN result_count + 1 ELSE result_count,
                                 max_results)

mdc_analyzer_benchmark(x, y, iterations, max_results) ==
    IF max_results = 0 \/ iterations = 0 THEN Returns([count |-> 0])
    ELSE benchmark_loop(x, y, iterations, 1, 0, max_results)

\* g_system.total_executions += count * iterations; return count;
count_benchmarked(init, bench, iterations) ==
    [system |-> IF bench.kind = "returns"
                THEN [init.system EXCEPT
                         !.total_executions = @ + bench.value.count * iterations]
                ELSE init.system,
     registry |-> init.registry,
     result |-> bench]

system_benchmark_algorithms(sys, reg, x, y, iterations) ==
    count_benchmarked(system_auto_init(sys, reg),
                      mdc_analyzer_benchmark(x, y, iterations, 16), iterations)

\* status->total_executions as system_get_status stores it.
system_get_status(sys) ==
    [total_executions |-> sys.total_executions, ready |-> system_is_ready(sys)]

----------------------------------------------------------------------------
(* State machine *)

\* Results a build may leave behind after undefined behaviour.
JunkResults == {math_create_success_result(j) : j \in JunkIntegers}

\* The capacities callers pass as max_results (10 in mdc_analyzer_find_fastest).
MaxResultsChoices == {0, 3, 7, 10}

Init ==
    /\ a \in Operands
    /\ b \in Operands
    /\ call = "none"
    /\ arg = 0
    /\ ret = Returns(0)
    /\ g_system = [r \in Runs |-> SystemStateZero]
    /\ g_registry = [r \in Runs |-> RegistryZero]
    /\ valid_executions = [r \in Runs |-> 0]

\* A direct call f(a, b) of one of the algorithm functions.
DirectCall(f) ==
    /\ call = "none"
    /\ call' = f
    /\ arg' = 0
    /\ ret' \in Observed(Algorithm(f, a, b), JunkIntegers)
    /\ UNCHANGED <<a, b>>

\* A run of mdc_modulo(a, b) or mdc_divisao(a, b) watched at its loop head.
LoopStates(f) ==
    /\ call = "none"
    /\ call' = "loop_states"
    /\ arg' = f
    /\ ret' = Returns(IF f = "mdc_modulo" THEN mdc_modulo_states(a, b)
                      ELSE mdc_divisao_states(a, b))
    /\ UNCHANGED <<a, b>>

\* iterativo.c, main: scanf("%d %d", &a, &b), then mdc_usando_subtracao(a, b).
MainCall ==
    /\ call = "none"
    /\ call' = "mdc_usando_subtracao"
    /\ arg' = 0
    /\ ret' \in Observed(mdc_usando_subtracao(a, b), JunkIntegers)
    /\ UNCHANGED <<a, b>>

\* A run of mdc_stein(a, b) watched at the head of its main loop, next to
\* what stein_estimate_iterations(a, b) returns; a and b are non-zero.
SteinLoop ==
    /\ call = "none"
    /\ a # 0
    /\ b # 0
    /\ call' = "mdc_stein_loop"
    /\ arg' = 0
    /\ \E s \in {mdc_stein_loop(a, b)} :
           ret' = Returns([status |-> s.status, heads |-> s.seen,
                           estimate |-> stein_estimate_iterations(a, b)])
    /\ UNCHANGED <<a, b>>

\* A run of mdc_subtracao(a, b) watched at its loop head, or of mdc_sub(a, b)
\* watched at each call.
SubtractionLoop(f) ==
    /\ call = "none"
    /\ f = "mdc_subtracao" => a # LLONG_MIN /\ b # LLONG_MIN /\ ~(a = 0 /\ b = 0)
    /\ call' = "subtraction_loop"
    /\ arg' = f
    /\ ret' = Returns(IF f = "mdc_subtracao" THEN mdc_subtracao_loop(a, b)
                      ELSE mdc_sub_loop(a, b))
    /\ UNCHANGED <<a, b>>

\* mdc_ext(a, b, &x, &y)
ExtCall ==
    /\ call = "none"
    /\ call' = "mdc_ext"
    /\ arg' = 0
    /\ ret' \in Observed(mdc_ext(a, b), {ExtValue(j, j, j) : j \in JunkIntegers})
    /\ UNCHANGED <<a, b>>

\* mdc_analyzer_execute_algorithm(variant, a, b): the variant's wrapper.
ExecuteAlgorithm(variant) ==
    /\ call = "none"
    /\ call' = "mdc_analyzer_execute_algorithm"
    /\ arg' = variant
    /\ ret' \in Observed(mdc_analyzer_execute_algorithm(variant, a, b), JunkResults)
    /\ UNCHANGED <<a, b>>

\* mdc_analyzer_execute_all(a, b, results, max_results)
ExecuteAll(max_results) ==
    /\ call = "none"
    /\ call' = "mdc_analyzer_execute_all"
    /\ arg' = max_results
    /\ ret' \in Observed(mdc_analyzer_execute_all(a, b, max_results),
                         {[count |-> 1, results |-> <<r>>] : r \in JunkResults})
    /\ UNCHANGED <<a, b>>

\* Candidate results handed to the validators.
Candidates == Operands \cup {-v : v \in Operands \ {LLONG_MIN}}

\* euclidean_extended_compute_full(a, b, &x, &y)
ExtendedComputeFull ==
    /\ call = "none"
    /\ call' = "euclidean_extended_compute_full"
    /\ arg' = 0
    /\ ret' \in Observed(euclidean_extended_compute_full(a, b),
                         {EXTENDED_GCD_INIT(j, j, j) : j \in JunkIntegers})
    /\ UNCHANGED <<a, b>>

\* gcd_validate_extended_result(a, b, &result) on the result just computed.
ValidateExtended ==
    /\ call = "euclidean_extended_compute_full"
    /\ ret.returned
    /\ call' = "gcd_validate_extended_result"
    /\ arg' = ret.value
    /\ ret' \in Observed(gcd_validate_extended_result(a, b, ret.value), BOOLEAN)
    /\ UNCHANGED <<a, b>>

\* The three edge-case shortcuts of the repository.
EdgeCaseHandlers ==
    {"math_handle_gcd_special_cases", "gcd_handle_edge_cases", "impl_gcd_handle_edge_cases"}

\* math_handle_gcd_special_cases(a, b, &result) or gcd_handle_edge_cases(a, b,
\* &result): whether the pair was handled, and the value stored if it was.
HandleEdgeCases(handler) ==
    /\ call = "none"
    /\ call' = handler
    /\ arg' = 0
    /\ ret' \in Observed(
                  CASE handler = "math_handle_gcd_special_cases" ->
                           math_handle_gcd_special_cases(a, b)
                    [] handler = "gcd_handle_edge_cases" -> gcd_handle_edge_cases(a, b)
                    [] OTHER -> impl_gcd_handle_edge_cases(a, b),
                  {[handled |-> h] : h \in BOOLEAN})
    /\ UNCHANGED <<a, b>>

\* gcd_reference_implementation(a, b), in either definition.
ReferenceCall(def) ==
    /\ call = "none"
    /\ call' = "gcd_reference_implementation"
    /\ arg' = [def |-> def]
    /\ ret' \in Observed(reference_implementation(def, a, b), JunkIntegers)
    /\ UNCHANGED <<a, b>>

\* gcd_validate_input(a, b), in either definition.
ValidateInput(def) ==
    /\ call = "none"
    /\ call' = "gcd_validate_input"
    /\ arg' = [def |-> def]
    /\ ret' = Returns(validate_input(def, a, b))
    /\ UNCHANGED <<a, b>>

\* gcd_validate_result(a, b, result), in either definition.
ValidateResult(def, result) ==
    /\ call = "none"
    /\ call' = "gcd_validate_result"
    /\ arg' = [def |-> def, result |-> result]
    /\ ret' \in Observed(validate_result(def, a, b, result), BOOLEAN)
    /\ UNCHANGED <<a, b>>

\* gcd_check_fundamental_properties(a, b, result), in either definition.
CheckFundamentalProperties(def, result) ==
    /\ call = "none"
    /\ call' = "gcd_check_fundamental_properties"
    /\ arg' = [def |-> def, result |-> result]
    /\ ret' \in Observed(check_fundamental_properties(def, a, b, result), BOOLEAN)
    /\ UNCHANGED <<a, b>>

\* The calls below go to the algorithms, the analyzer and the validation
\* layer; none of them reads or writes g_system or g_registry.
Next ==
  /\ UNCHANGED <<g_system, g_registry, valid_executions>>
  /\
    \/ \E f \in AlgorithmNames : DirectCall(f)
    \/ \E f \in {"mdc_modulo", "mdc_divisao"} : LoopStates(f)
    \/ MainCall
    \/ SteinLoop
    \/ \E f \in {"mdc_subtracao", "mdc_sub"} : SubtractionLoop(f)
    \/ ExtCall
    \/ \E variant \in GcdAlgorithmVariant : ExecuteAlgorithm(variant)
    \/ \E max_results \in MaxResultsChoices : ExecuteAll(max_results)
    \/ ExtendedComputeFull
    \/ ValidateExtended
    \/ \E handler \in EdgeCaseHandlers : HandleEdgeCases(handler)
    \/ \E def \in Definitions : ReferenceCall(def)
    \/ \E def \in Definitions : ValidateInput(def)
    \/ \E def \in Definitions, result \in Candidates : ValidateResult(def, result)
    \/ \E def \in Definitions, result \in Candidates :
           CheckFundamentalProperties(def, result)

Spec == Init /\ [][Next]_vars

----------------------------------------------------------------------------
(* The consistency check on arbitrary collections of results *)

MaxResults == 3

\* Results a caller can hold: successes, the error result, and results whose
\* is_valid flag and status disagree.
ResultSamples ==
    {math_create_success_result(v) : v \in {MATH_INVALID_VALUE, 0, 6}}
        \cup {math_create_error_result(MATH_ERROR_OVERFLOW),
              [value |-> 6, status |-> MATH_ERROR_OVERFLOW, is_valid |-> TRUE],
              [value |-> 6, status |-> MATH_SUCCESS, is_valid |-> FALSE]}

Collections == UNION {[1 .. n -> ResultSamples] : n \in 1 .. MaxResults}

InitConsistency ==
    /\ \E operands \in {<<48, 18>>, <<-3, 2>>} :
           /\ a = operands[1]
           /\ b = operands[2]
    /\ call = "none"
    /\ arg = 0
    /\ ret = Returns(0)
    /\ g_system = [r \in Runs |-> SystemStateZero]
    /\ g_registry = [r \in Runs |-> RegistryZero]
    /\ valid_executions = [r \in Runs |-> 0]

\* mdc_analyzer_validate_consistency(a, b, results, result_count)
ValidateConsistency(results) ==
    /\ call = "none"
    /\ call' = "mdc_analyzer_validate_consistency"
    /\ arg' = results
    /\ ret' = Returns(mdc_analyzer_validate_consistency(results))
    /\ UNCHANGED <<a, b, g_system, g_registry, valid_executions>>

NextConsistency == \E results \in Collections : ValidateConsistency(results)

SpecConsistency == InitConsistency /\ [][NextConsistency]_vars

----------------------------------------------------------------------------
(* The coordinator under different call histories.  Two runs of the same   *)
(* build are kept side by side: g_system[r] and g_registry[r] are the       *)
(* statics of run r.  Earlier calls are made in one run alone; the call     *)
(* under observation is made last, in both runs with the same arguments,    *)
(* and ret[r] is its outcome in run r.  The algorithm functions read        *)
(* neither static, so what an overflow yields in the observed call is       *)
(* chosen once, by the build, for both runs.                                *)

MaxExecutions == 2

\* Variants a caller can pass: the seven registered ones and one that is not.
SystemVariants == GcdAlgorithmVariant \cup {7}

\* Earlier executions of a run: calls that returned a result.
EarlierOperands == {<<48, 18>>, <<0, 0>>, <<-3, 2>>}

ResolveValue(o, ub) ==
    IF o.kind # "undefined" THEN o
    ELSE IF ~ub.returns THEN Undefined
    ELSE [kind |-> "undefined", returned |-> TRUE, value |-> ub.junk]

ObservedCalls == {"system_execute_gcd", "system_quick_gcd", "gcd_reference_implementation"}

\* The observed call has not been made yet.
BeforeObservedCall == call \notin ObservedCalls

\* The outcomes the build can give the observed call: one, unless the call
\* runs into undefined behaviour in some run.
BuildOutcomes(kinds) ==
    IF "undefined" \in kinds THEN UndefinedOutcomes ELSE {NoReturn}

CountersBelowBound == \A r \in Runs : g_system[r].total_executions < MaxExecutions

InitSystem ==
    /\ a = 0
    /\ b = 0
    /\ call = "none"
    /\ arg = 0
    /\ ret = [r \in Runs |-> Returns(0)]
    /\ g_system = [r \in Runs |-> SystemStateZero]
    /\ g_registry = [r \in Runs |-> RegistryZero]
    /\ valid_executions = [r \in Runs |-> 0]

\* system_init() in run r alone.
SystemInit(r) ==
    /\ BeforeObservedCall
    /\ LET init == system_init(g_system[r], g_registry[r])
       IN  /\ g_system' = [g_system EXCEPT ![r] = init.system]
           /\ g_registry' = [g_registry EXCEPT ![r] = init.registry]
    /\ call' = "system_init"
    /\ arg' = r
    /\ UNCHANGED <<a, b, ret>>

\* gcd_registry_init() in run r alone.
RegistryInit(r) ==
    /\ BeforeObservedCall
    /\ g_registry' = [g_registry EXCEPT ![r] = gcd_registry_init(g_registry[r])]
    /\ call' = "gcd_registry_init"
    /\ arg' = r
    /\ UNCHANGED <<a, b, ret, g_system>>

\* system_execute_gcd(variant, x, y) in run r alone, as an earlier execution.
EarlierExecution(r, variant, x, y) ==
    /\ BeforeObservedCall
    /\ g_system[r].total_executions < MaxExecutions
    /\ \E exec \in {system_execute_gcd(g_system[r], g_registry[r], variant, x, y, NoReturn)} :
           /\ exec.result.kind = "returns"
           /\ g_system' = [g_system EXCEPT ![r] = exec.system]
           /\ g_registry' = [g_registry EXCEPT ![r] = exec.registry]
    /\ call' = "earlier_execution"
    /\ arg' = r
    /\ UNCHANGED <<a, b, ret>>

\* system_execute_gcd(variant, x, y), the same call in both runs.
SystemExecuteGcd(variant, x, y) ==
    /\ BeforeObservedCall
    /\ CountersBelowBound
    /\ \E ub \in BuildOutcomes({system_execute_gcd(g_system[r], g_registry[r], variant,
                                                       x, y, NoReturn).result.kind :
                                        r \in Runs}) :
           \E exec \in {[r \in Runs |->
                           system_execute_gcd(g_system[r], g_registry[r], variant, x, y, ub)]} :
               /\ g_system' = [r \in Runs |-> exec[r].system]
               /\ g_registry' = [r \in Runs |-> exec[r].registry]
               /\ ret' = [r \in Runs |-> exec[r].result]
    /\ call' = "system_execute_gcd"
    /\ arg' = variant
    /\ a' = x
    /\ b' = y

\* system_quick_gcd(x, y), the same call in both runs.
SystemQuickGcd(x, y) ==
    /\ BeforeObservedCall
    /\ CountersBelowBound
    /\ \E ub \in BuildOutcomes({system_quick_gcd(g_system[r], g_registry[r], x, y,
                                                     NoReturn).result.kind :
                                        r \in Runs}) :
           \E exec \in {[r \in Runs |->
                           system_quick_gcd(g_system[r], g_registry[r], x, y, ub)]} :
               /\ g_system' = [r \in Runs |-> exec[r].system]
               /\ g_registry' = [r \in Runs |-> exec[r].registry]
               /\ ret' = [r \in Runs |-> exec[r].result]
    /\ call' = "system_quick_gcd"
    /\ arg' = GCD_EUCLIDEAN_MODULO
    /\ a' = x
    /\ b' = y

\* gcd_reference_implementation(x, y), the same call in both runs.
SystemReferenceCall(x, y) ==
    /\ BeforeObservedCall
    /\ \E ub \in BuildOutcomes({gcd_reference_implementation(x, y).kind}) :
           ret' = [r \in Runs |-> ResolveValue(gcd_reference_implementation(x, y), ub)]
    /\ call' = "gcd_reference_implementation"
    /\ arg' = 0
    /\ a' = x
    /\ b' = y
    /\ UNCHANGED <<g_system, g_registry>>

NextSystem ==
  /\ UNCHANGED valid_executions
  /\
    \/ \E r \in Runs : SystemInit(r)
    \/ \E r \in Runs : RegistryInit(r)
    \/ \E r \in Runs, variant \in SystemVariants, operands \in EarlierOperands :
           EarlierExecution(r, variant, operands[1], operands[2])
    \/ \E variant \in SystemVariants, x \in SystemOperands, y \in SystemOperands :
           SystemExecuteGcd(variant, x, y)
    \/ \E x \in SystemOperands, y \in SystemOperands : SystemQuickGcd(x, y)
    \/ \E x \in SystemOperands, y \in SystemOperands : SystemReferenceCall(x, y)

SpecSystem == InitSystem /\ [][NextSystem]_vars

----------------------------------------------------------------------------
(* The registry under any sequence of gcd_registry_* calls, in either run. *)
(* arg records the run, whether its registry was initialised when the call *)
(* was made, and the call's argument.                                       *)

RegistryArg(r, v) ==
    [run |-> r, was_initialized |-> g_registry[r].is_initialized, argument |-> v]

InitRegistry ==
    /\ a = 0
    /\ b = 0
    /\ call = "none"
    /\ arg = 0
    /\ ret = Returns(0)
    /\ g_system = [r \in Runs |-> SystemStateZero]
    /\ g_registry = [r \in Runs |-> RegistryZero]
    /\ valid_executions = [r \in Runs |-> 0]

\* gcd_registry_init()
RegistryCallInit(r) ==
    /\ g_registry' = [g_registry EXCEPT ![r] = gcd_registry_init(g_registry[r])]
    /\ call' = "gcd_registry_init"
    /\ arg' = RegistryArg(r, 0)
    /\ ret' = Returns(MATH_SUCCESS)
    /\ UNCHANGED <<a, b, g_system>>

\* gcd_registry_is_initialized()
RegistryCallIsInitialized(r) ==
    /\ call' = "gcd_registry_is_initialized"
    /\ arg' = RegistryArg(r, 0)
    /\ ret' = Returns(g_registry[r].is_initialized)
    /\ UNCHANGED <<a, b, g_system, g_registry>>

\* gcd_registry_get_implementation(variant)
RegistryCallGetImplementation(r, variant) ==
    /\ \E found \in {gcd_registry_get_implementation(g_registry[r], variant)} :
           /\ g_registry' = [g_registry EXCEPT ![r] = found.registry]
           /\ ret' = Returns(found.spec)
    /\ call' = "gcd_registry_get_implementation"
    /\ arg' = RegistryArg(r, variant)
    /\ UNCHANGED <<a, b, g_system>>

\* gcd_registry_execute(variant, x, y)
RegistryCallExecute(r, variant, x, y) ==
    /\ \E exec \in {gcd_registry_execute(g_registry[r], variant, x, y)} :
           /\ g_registry' = [g_registry EXCEPT ![r] = exec.registry]
           /\ ret' \in Observed(exec.result, JunkResults)
    /\ call' = "gcd_registry_execute"
    /\ arg' = RegistryArg(r, variant)
    /\ a' = x
    /\ b' = y
    /\ UNCHANGED g_system

\* gcd_registry_get_count()
RegistryCallGetCount(r) ==
    /\ \E got \in {gcd_registry_get_count(g_registry[r])} :
           /\ g_registry' = [g_registry EXCEPT ![r] = got.registry]
           /\ ret' = Returns(got.count)
    /\ call' = "gcd_registry_get_count"
    /\ arg' = RegistryArg(r, 0)
    /\ UNCHANGED <<a, b, g_system>>

\* gcd_registry_list_variants(variants, max_variants)
RegistryCallListVariants(r, max_variants) ==
    /\ \E got \in {gcd_registry_list_variants(g_registry[r], max_variants)} :
           /\ g_registry' = [g_registry EXCEPT ![r] = got.registry]
           /\ ret' = Returns(got.count)
    /\ call' = "gcd_registry_list_variants"
    /\ arg' = RegistryArg(r, max_variants)
    /\ UNCHANGED <<a, b, g_system>>

NextRegistry ==
  /\ UNCHANGED valid_executions
  /\
    \/ \E r \in Runs : RegistryCallInit(r)
    \/ \E r \in Runs : RegistryCallIsInitialized(r)
    \/ \E r \in Runs, variant \in SystemVariants : RegistryCallGetImplementation(r, variant)
    \/ \E r \in Runs, variant \in SystemVariants, operands \in EarlierOperands :
           RegistryCallExecute(r, variant, operands[1], operands[2])
    \/ \E r \in Runs : RegistryCallGetCount(r)
    \/ \E r \in Runs, max_variants \in MaxResultsChoices :
           RegistryCallListVariants(r, max_variants)

SpecRegistry == InitRegistry /\ [][NextRegistry]_vars

----------------------------------------------------------------------------
(* The execution statistics of the coordinator: any sequence of the counting
   entry points, system_init and system_get_status, in each run.
   valid_executions[r] is a history variable: the number of algorithm
   executions of run r so far that produced a valid result. *)

\* Operand pairs of the counted calls: every variant has defined behaviour
\* on each of them.
StatisticsOperands == {<<48, 18>>, <<8, 18>>, <<0, 0>>, <<LLONG_MIN, 0>>}

\* Names passed to system_execute_gcd_by_name: a registered one of each
\* family and one that is not registered.
StatisticsNames ==
    {"Euclidean Modulo", "Recursive Euclidean Subtraction", "Extended Euclidean",
     "Stein Binary GCD", "Unknown"}

BenchmarkIterations == 0 .. MaxExecutions

\* The number of valid results in an array of results.
valid_results(results) ==
    Cardinality({i \in 1 .. Len(results) : MATH_IS_VALID_RESULT(results[i])})

StatisticsBelowBound(r) == g_system[r].total_executions < MaxExecutions

InitStatistics ==
    /\ a = 0
    /\ b = 0
    /\ call = "none"
    /\ arg = <<>>
    /\ ret = Returns(0)
    /\ g_system = [r \in Runs |-> SystemStateZero]
    /\ g_registry = [r \in Runs |-> RegistryZero]
    /\ valid_executions = [r \in Runs |-> 0]

\* What a counting call leaves: the statics of run r, the operands, the
\* outcome, and `valid` more valid executions.
StatisticsCall(r, name, x, y, exec, valid) ==
    /\ exec.result.kind = "returns"
    /\ a' = x
    /\ b' = y
    /\ call' = name
    /\ arg' = r
    /\ ret' = Returns(exec.system.total_executions)
    /\ g_system' = [g_system EXCEPT ![r] = exec.system]
    /\ g_registry' = [g_registry EXCEPT ![r] = exec.registry]
    /\ valid_executions' = [valid_executions EXCEPT ![r] = @ + valid]

StatisticsInit(r) ==
    \E init \in {system_init(g_system[r], g_registry[r])} :
        /\ call' = "system_init"
        /\ arg' = r
        /\ ret' = Returns(init.status)
        /\ g_system' = [g_system EXCEPT ![r] = init.system]
        /\ g_registry' = [g_registry EXCEPT ![r] = init.registry]
        /\ UNCHANGED <<a, b, valid_executions>>

StatisticsGetStatus(r) ==
    /\ call' = "system_get_status"
    /\ arg' = r
    /\ ret' = Returns(system_get_status(g_system[r]).total_executions)
    /\ UNCHANGED <<a, b, g_system, g_registry, valid_executions>>

StatisticsExecuteGcd(r, variant, x, y) ==
    /\ StatisticsBelowBound(r)
    /\ \E exec \in {system_execute_gcd(g_system[r], g_registry[r], variant, x, y, NoReturn)} :
           StatisticsCall(r, "system_execute_gcd", x, y, exec,
                          IF MATH_IS_VALID_RESULT(exec.result.value) THEN 1 ELSE 0)

StatisticsExecuteGcdByName(r, name, x, y) ==
    /\ StatisticsBelowBound(r)
    /\ \E exec \in {system_execute_gcd_by_name(g_system[r], g_registry[r], name, x, y,
                                                NoReturn)} :
           StatisticsCall(r, "system_execute_gcd_by_name", x, y, exec,
                          IF MATH_IS_VALID_RESULT(exec.result.value) THEN 1 ELSE 0)

StatisticsExecuteExtended(r, x, y) ==
    /\ StatisticsBelowBound(r)
    /\ \E exec \in {system_execute_extended_gcd(g_system[r], g_registry[r], x, y)} :
           StatisticsCall(r, "system_execute_extended_gcd", x, y, exec,
                          IF exec.result.value.is_valid THEN 1 ELSE 0)

StatisticsCompareAll(r, x, y) ==
    /\ StatisticsBelowBound(r)
    /\ \E exec \in {system_compare_all_algorithms(g_system[r], g_registry[r], x, y)} :
           StatisticsCall(r, "system_compare_all_algorithms", x, y, exec,
                          valid_results(exec.result.value.results))

StatisticsBenchmark(r, x, y, iterations) ==
    /\ StatisticsBelowBound(r)
    /\ \E exec \in {system_benchmark_algorithms(g_system[r], g_registry[r], x, y,
                                                 iterations)},
          all \in {mdc_analyzer_execute_all(x, y, 16)} :
           /\ all.kind = "returns"
           /\ StatisticsCall(r, "system_benchmark_algorithms", x, y, exec,
                             iterations * valid_results(all.value.results))

NextStatistics ==
    \E r \in Runs :
        \/ StatisticsInit(r)
        \/ StatisticsGetStatus(r)
        \/ \E p \in StatisticsOperands :
               \/ \E variant \in SystemVariants :
                      StatisticsExecuteGcd(r, variant, p[1], p[2])
               \/ \E name \in StatisticsNames :
                      StatisticsExecuteGcdByName(r, name, p[1], p[2])
               \/ StatisticsExecuteExtended(r, p[1], p[2])
               \/ StatisticsCompareAll(r, p[1], p[2])
               \/ \E iterations \in BenchmarkIterations :
                      StatisticsBenchmark(r, p[1], p[2], iterations)

SpecStatistics == InitStatistics /\ [][NextStatistics]_vars

----------------------------------------------------------------------------
(* Mathematical reference for the properties *)

Divides(d, n) == n % d = 0

CommonDivisors(x, y) ==
    {d \in 1 .. (IF Abs(x) > Abs(y) THEN Abs(x) ELSE Abs(y)) : Divides(d, x) /\ Divides(d, y)}

\* The greatest positive integer dividing both, and 0 for (0, 0).
MathGcd(x, y) ==
    IF x = 0 /\ y = 0 THEN 0
    ELSE CHOOSE d \in CommonDivisors(x, y) : \A e \in CommonDivisors(x, y) : e <= d

NotMin(x, y) == x # LLONG_MIN /\ y # LLONG_MIN

\* Every loop run by a call ended, overflowed or was recognised as endless
\* within LoopFuel iterations.
FuelSuffices == ret.kind # "running"

----------------------------------------------------------------------------
(* Properties *)

\* C1: for operands other than INT64_MIN, every valid result a compute
\* wrapper returns has value >= 0, and value >= 1 when an operand is non-zero.
C1_NonNegativeResult ==
    (/\ call = "mdc_analyzer_execute_algorithm"
     /\ NotMin(a, b)
     /\ ret.kind = "returns"
     /\ MATH_IS_VALID_RESULT(ret.value))
        => /\ ret.value.value >= 0
           /\ (a # 0 \/ b # 0) => ret.value.value >= 1

\* C2: the modulo-based algorithms mdc_modulo, mdc_divisao, mdc_mod and the
\* gcd value of mdc_ext are commutative: f(a, b) = f(b, a), for operands other
\* than INT64_MIN.
C2_Commutativity ==
    NotMin(a, b) =>
        /\ call \in {"mdc_modulo", "mdc_divisao", "mdc_mod"} => ret = Algorithm(call, b, a)
        /\ call = "mdc_ext" =>
               /\ ret.kind = "returns"
               /\ Returns(ret.value.gcd) = mdc_ext_gcd(b, a)

\* C3: each of the seven algorithm functions, called directly, returns |a|
\* for (a, 0), |b| for (0, b) and 0 for (0, 0), for operands other than
\* INT64_MIN.
C3_ZeroIdentities ==
    (/\ call \in AlgorithmNames \cup {"mdc_ext"}
     /\ NotMin(a, b)
     /\ (a = 0 \/ b = 0))
        => /\ ret.kind = "returns"
           /\ (IF call = "mdc_ext" THEN ret.value.gcd ELSE ret.value)
                  = (IF b = 0 THEN Abs(a) ELSE Abs(b))

\* C4: for strictly positive operands, mdc_analyzer_execute_all with room for
\* seven results returns seven valid results, all carrying gcd(a, b); this is
\* 6 for (48, 18).
C4_CrossAlgorithmAgreement ==
    (/\ call = "mdc_analyzer_execute_all"
     /\ arg = 7
     /\ a >= 1
     /\ b >= 1)
        => /\ ret.kind = "returns"
           /\ ret.value.count = 7
           /\ Len(ret.value.results) = 7
           /\ \A i \in 1 .. 7 :
                  /\ MATH_IS_VALID_RESULT(ret.value.results[i])
                  /\ ret.value.results[i].value = MathGcd(a, b)
           /\ (a = 48 /\ b = 18) => ret.value.results[1].value = 6

C4_Witness ==
    /\ call = "mdc_analyzer_execute_all"
    /\ arg = 7
    /\ a = 48
    /\ b = 18
    /\ ret.kind = "returns"
    /\ \A i \in 1 .. 7 : ret.value.results[i].value = 6

\* The operands of the Bezout claim: magnitudes far from the machine limits.
SmallMagnitude(v) == v \in Operands \ {LLONG_MIN, LLONG_MAX}

\* C5: for operands of small magnitude, negative and zero included, mdc_ext
\* returns g and writes x, y with a*x + b*y = g exactly.
C5_BezoutIdentity ==
    (/\ call = "mdc_ext"
     /\ SmallMagnitude(a)
     /\ SmallMagnitude(b))
        => /\ ret.kind = "returns"
           /\ a * ret.value.x + b * ret.value.y = ret.value.gcd

C5_Witness ==
    /\ call = "mdc_ext"
    /\ a = -12
    /\ b = 8
    /\ ret.kind = "returns"
    /\ ret.value.x # 0
    /\ ret.value.y # 0
    /\ a * ret.value.x + b * ret.value.y = ret.value.gcd

\* C6: for operands other than INT64_MIN, the result of
\* euclidean_extended_compute_full(a, b) is accepted by
\* gcd_validate_extended_result(a, b, &result).
C6_ExtendedRoundTrip ==
    (/\ call = "gcd_validate_extended_result"
     /\ NotMin(a, b)
     /\ arg = euclidean_extended_compute_full(a, b).value)
        => /\ ret.kind = "returns"
           /\ ret.value = TRUE

\* C7: gcd_validate_result of challenge_validation.c returns true if and
\* only if the candidate equals the mathematical gcd of |a| and |b|, for
\* operands other than INT64_MIN and every candidate.
C7_ValidatorExact ==
    (/\ call = "gcd_validate_result"
     /\ arg.def = "challenge_validation"
     /\ NotMin(a, b))
        => /\ ret.kind = "returns"
           /\ ret.value <=> (arg.result = MathGcd(Abs(a), Abs(b)))

C7_Witness ==
    /\ call = "gcd_validate_result"
    /\ arg.def = "challenge_validation"
    /\ a = 48
    /\ b = 18
    /\ arg.result = 3
    /\ ret.kind = "returns"
    /\ ret.value = FALSE

\* C8: gcd_validate_result of challenge_implementation.c returns true, for
\* non-zero operands, only when the candidate is the greatest common divisor
\* of |a| and |b|.
C8_ImplValidatorGreatest ==
    (/\ call = "gcd_validate_result"
     /\ arg.def = "challenge_implementation"
     /\ a # 0
     /\ b # 0
     /\ ret.kind = "returns"
     /\ ret.value)
        => arg.result = MathGcd(Abs(a), Abs(b))

\* C9: in both definitions, gcd_check_fundamental_properties(a, b, r) returns
\* true if and only if r equals gcd_reference_implementation(a, b), for
\* operands other than INT64_MIN; so a true verdict implies that r divides
\* both operands, equals the reference on the swapped pair and equals |a|
\* when b = 0.
C9_FundamentalProperties ==
    (/\ call = "gcd_check_fundamental_properties"
     /\ NotMin(a, b))
        => LET reference == reference_implementation(arg.def, a, b)
               swapped == reference_implementation(arg.def, b, a)
           IN  /\ ret.kind = "returns"
               /\ reference.kind = "returns"
               /\ ret.value <=> (arg.result = reference.value)
               /\ ret.value =>
                      /\ arg.result = swapped.value
                      /\ arg.result > 0 => (Divides(arg.result, a) /\ Divides(arg.result, b))
                      /\ b = 0 => arg.result = Abs(a)

C9_Witness ==
    /\ call = "gcd_check_fundamental_properties"
    /\ arg.def = "challenge_implementation"
    /\ a = -12
    /\ b = 8
    /\ arg.result = 2
    /\ ret.kind = "returns"
    /\ ret.value = FALSE

\* C10: for every non-empty collection of results,
\* mdc_analyzer_validate_consistency returns true exactly when at least one
\* result is valid and all valid results carry the same value.
C10_ConsistencyExact ==
    call = "mdc_analyzer_validate_consistency" =>
        LET valid == {i \in 1 .. Len(arg) : MATH_IS_VALID_RESULT(arg[i])}
        IN  ret.value <=>
                /\ valid # {}
                /\ \A i, j \in valid : arg[i].value = arg[j].value

\* C11: euclidean_subtraction_compute and stein_binary_compute return an
\* error result (is_valid false, status other than MATH_SUCCESS) whenever at
\* least one operand is INT64_MIN.
C11_OverflowExclusion ==
    (/\ call = "mdc_analyzer_execute_algorithm"
     /\ arg \in {GCD_EUCLIDEAN_SUBTRACTION, GCD_BINARY_STEIN}
     /\ (a = LLONG_MIN \/ b = LLONG_MIN))
        => /\ ret.kind = "returns"
           /\ ~ret.value.is_valid
           /\ ret.value.status # MATH_SUCCESS

\* C12: in each of its definitions, gcd_validate_input(a, b) returns false
\* when at least one operand is INT64_MIN and true for every other pair.
C12_InputValidation ==
    call = "gcd_validate_input" =>
        /\ ret.kind = "returns"
        /\ ret.value <=> (a # LLONG_MIN /\ b # LLONG_MIN)

\* C13: mdc_subtracao, and mdc_usando_subtracao as main calls it, return
\* for every operand pair with neither operand at the minimum value, pairs
\* with exactly one zero operand included.
C13_SubtractionTerminates ==
    (/\ call \in {"mdc_subtracao", "mdc_usando_subtracao"}
     /\ NotMin(a, b))
        => ret.kind = "returns"

\* C14: stein_binary_compute returns a valid result for every operand pair
\* with neither operand INT64_MIN, negative operands included.
C14_SteinHandlesAnyInput ==
    (/\ call = "mdc_analyzer_execute_algorithm"
     /\ arg = GCD_BINARY_STEIN
     /\ NotMin(a, b))
        => /\ ret.kind = "returns"
           /\ MATH_IS_VALID_RESULT(ret.value)

\* C15: euclidean_recursive_subtraction_compute returns a valid result for
\* every operand pair with neither operand INT64_MIN, and no subtraction of
\* mdc_sub leaves the signed range (the outcome is not undefined).
C15_RecursiveHandlesAnyInput ==
    (/\ call = "mdc_analyzer_execute_algorithm"
     /\ arg = GCD_RECURSIVE_SUBTRACTION
     /\ NotMin(a, b))
        => /\ ret.kind = "returns"
           /\ MATH_IS_VALID_RESULT(ret.value)

\* C16: for operands other than INT64_MIN, gcd_reference_implementation(a, b)
\* is the greatest positive integer dividing |a| and |b|, and 0 for (0, 0),
\* whatever the signs and the order of the operands; so (-12, 8) gives 4,
\* (15, -10) gives 5, (-20, -30) gives 10 and (0, 5) gives 5.
C16_ReferenceIsGroundTruth ==
    (/\ call = "gcd_reference_implementation"
     /\ NotMin(a, b))
        => /\ ret = Returns(MathGcd(Abs(a), Abs(b)))
           /\ ret = reference_implementation(arg.def, b, a)
           /\ ret = reference_implementation(arg.def, -a, b)
           /\ (a = -12 /\ b = 8) => ret.value = 4
           /\ (a = 15 /\ b = -10) => ret.value = 5
           /\ (a = -20 /\ b = -30) => ret.value = 10
           /\ (a = 0 /\ b = 5) => ret.value = 5

C16_Witness ==
    /\ call = "gcd_reference_implementation"
    /\ arg.def = "challenge_validation"
    /\ a = -20
    /\ b = -30
    /\ ret = Returns(10)

\* C17: for every operand pair, mdc_divisao(a, b) and mdc_mod(a, b) behave
\* as mdc_modulo(a, b) does: the same value wherever mdc_modulo returns one
\* (undefined exactly where mdc_modulo is, on INT64_MIN divided by -1), and
\* mdc_divisao visits the same sequence of (a, b) states as mdc_modulo.
C17_ModuloFamilyEquivalence ==
    LET modulo == mdc_modulo(a, b)
    IN  /\ call \in {"mdc_divisao", "mdc_mod"} =>
               /\ ret.kind = modulo.kind
               /\ modulo.kind = "returns" => ret = modulo
        /\ (call = "loop_states" /\ arg = "mdc_divisao") =>
               ret.value = mdc_modulo_states(a, b)

C17_Witness ==
    /\ call = "loop_states"
    /\ arg = "mdc_divisao"
    /\ a = -12
    /\ b = 8
    /\ ret.value = << <<-12, 8>>, <<8, -4>>, <<-4, 0>> >>

\* C20: for operands other than INT64_MIN, math_handle_gcd_special_cases and
\* gcd_handle_edge_cases report a pair as handled exactly in the five cases
\* (0, 0), (a, 0), (0, b), a = b and |a| = 1 or |b| = 1, and the value they
\* store then equals gcd_reference_implementation(a, b): 0, |a|, |b|, |a|, 1.
C20_EdgeCaseShortcut ==
    (/\ call \in EdgeCaseHandlers
     /\ NotMin(a, b))
        => LET stored ==
                   IF call = "math_handle_gcd_special_cases" THEN ret.value.result.value
                   ELSE ret.value.result
               expected ==
                   CASE a = 0 /\ b = 0 -> 0
                     [] a # 0 /\ b = 0 -> Abs(a)
                     [] a = 0 /\ b # 0 -> Abs(b)
                     [] a # 0 /\ a = b -> Abs(a)
                     [] OTHER -> 1
           IN  /\ ret.kind = "returns"
               /\ ret.value.handled <=>
                      (a = 0 \/ b = 0 \/ a = b \/ Abs(a) = 1 \/ Abs(b) = 1)
               /\ ret.value.handled =>
                      /\ stored = gcd_reference_implementation(a, b).value
                      /\ stored = expected
                      /\ call = "math_handle_gcd_special_cases" =>
                             MATH_IS_VALID_RESULT(ret.value.result)

C20_Witness ==
    /\ call = "math_handle_gcd_special_cases"
    /\ a = -30
    /\ b = -30
    /\ ret = Handled(math_create_success_result(30))

C19_QuickGcdSentinel ==
    call = "system_quick_gcd" =>
        \A r \in Runs :
            ret[r].kind = "returns" =>
                LET exec == euclidean_modulo_compute(a, b)
                IN  /\ exec.kind = "returns"
                    /\ ret[r].value = MATH_INVALID_VALUE =>
                           ~MATH_IS_VALID_RESULT(exec.value)
                    /\ MATH_IS_VALID_RESULT(exec.value) =>
                           /\ ret[r].value = exec.value.value
                           /\ ret[r].value # MATH_INVALID_VALUE

OverflowShortcutPairs == {<<LLONG_MIN, 0>>, <<0, LLONG_MIN>>, <<LLONG_MIN, LLONG_MIN>>}

OverflowErrorResult ==
    [value |-> MATH_INVALID_VALUE, status |-> MATH_ERROR_OVERFLOW, is_valid |-> FALSE]

\* C21: on (LLONG_MIN, 0), (0, LLONG_MIN) and (LLONG_MIN, LLONG_MIN)
\* math_handle_gcd_special_cases returns true and stores the result with
\* status MATH_ERROR_OVERFLOW, is_valid false and value MATH_INVALID_VALUE,
\* and every compute wrapper returns that result, its algorithm not run.
C21_OverflowErrorValue ==
    <<a, b>> \in OverflowShortcutPairs =>
        /\ call = "math_handle_gcd_special_cases" =>
               ret = Returns([handled |-> TRUE, result |-> OverflowErrorResult])
        /\ call = "mdc_analyzer_execute_algorithm" => ret = Returns(OverflowErrorResult)
        /\ \A variant \in GcdAlgorithmVariant :
               mdc_analyzer_execute_algorithm(variant, a, b) = Returns(OverflowErrorResult)

\* The Stein wrapper was run on (LLONG_MIN, 0) and returned the overflow
\* error result.
C21_Witness ==
    /\ call = "mdc_analyzer_execute_algorithm"
    /\ arg = GCD_BINARY_STEIN
    /\ a = LLONG_MIN
    /\ b = 0
    /\ ret = Returns(OverflowErrorResult)

\* C22: on no operand pair does math_handle_gcd_special_cases, alone or as
\* the first step of a compute wrapper, negate LLONG_MIN: the only undefined
\* operation of the shortcut is the negation in MATH_ABS, so the shortcut
\* never has an undefined outcome.
C22_AbsOverflowProtected ==
    /\ call = "math_handle_gcd_special_cases" => ret.kind # "undefined"
    /\ call = "mdc_analyzer_execute_algorithm" =>
           math_handle_gcd_special_cases(a, b).kind # "undefined"

\* C23: for strictly positive operands, a is odd at the start of every
\* iteration of mdc_stein's main loop (the code's "From here on, a is always
\* odd").
C23_SteinLoopInvariant ==
    call = "mdc_stein_loop" /\ a > 0 /\ b > 0 =>
        \A head \in ret.value.heads : ~IsEven(head[1])

\* C24: for strictly positive operands, the main loop of mdc_stein runs at
\* most stein_estimate_iterations(a, b) iterations.
C24_SteinEstimateConservative ==
    call = "mdc_stein_loop" /\ a > 0 /\ b > 0 =>
        /\ ret.value.status = "returns"
        /\ ret.value.estimate.kind = "returns"
        /\ Cardinality(ret.value.heads) <= ret.value.estimate.value

\* The (a, b) a subtraction run passed through: the states it went on from
\* and the state it ended in.
Visited(s) == s.seen \cup {<<s.a, s.b>>}

\* C25: for non-zero operands other than LLONG_MIN, negative ones included,
\* mdc_subtracao(a, b) returns gcd(|a|, |b|) > 0, and throughout its loop
\* both working values are >= 1 and every iteration makes their sum smaller.
C25_SubtractionNormalisesSigns ==
    a # 0 /\ b # 0 /\ NotMin(a, b) =>
        /\ call = "mdc_subtracao" =>
               /\ ret = Returns(MathGcd(Abs(a), Abs(b)))
               /\ ret.value > 0
        /\ call = "subtraction_loop" /\ arg = "mdc_subtracao" =>
               /\ ret.value.status = "returns"
               /\ ret.value.a = MathGcd(Abs(a), Abs(b))
               /\ \A v \in Visited(ret.value) : v[1] >= 1 /\ v[2] >= 1
               /\ \A v \in ret.value.seen :
                      \E n \in Visited(ret.value) :
                          /\ n = <<mdc_subtracao_body(v[1], v[2]).a,
                                   mdc_subtracao_body(v[1], v[2]).b>>
                          /\ n[1] + n[2] < v[1] + v[2]

\* mdc_subtracao(-12, 8) was watched: it made iterations and ended with 4.
C25_Witness ==
    /\ call = "subtraction_loop"
    /\ arg = "mdc_subtracao"
    /\ a = -12
    /\ b = 8
    /\ ret.value.seen = {<<12, 8>>, <<4, 8>>}
    /\ ret.value.a = 4

C26_ModuloFamilyConverges ==
    /\ call \in {"mdc_modulo", "mdc_divisao"} => ret.kind = "returns"
    /\ call = "loop_states" /\ ret.value # << >> =>
           /\ ret.value[Len(ret.value)][2] = 0
           /\ \A i \in 1 .. Len(ret.value) - 1 :
                  Abs(ret.value[i + 1][2]) < Abs(ret.value[i][2])

\* The wrappers of the modulo family: each runs the division chain of
\* mdc_modulo on its operands.
ModuloFamilyVariants ==
    {GCD_EUCLIDEAN_MODULO, GCD_EUCLIDEAN_DIVISION, GCD_RECURSIVE_MODULO,
     GCD_EXTENDED_EUCLIDEAN}

\* The division chain on (x, y) comes to LLONG_MIN over -1.
LeadsToOverflowingDivision(x, y) ==
    /\ ~(x = 0 /\ y = 0)
    /\ LET w == mdc_modulo_walk(x, y)
       IN  DivOverflows(w[Len(w)][1], w[Len(w)][2])

\* C28: the four wrappers of the modulo family never divide LLONG_MIN by -1:
\* on every pair whose division chain comes to it, the special-case shortcut
\* returns handled, so the wrapper returns without running its algorithm.
C28_NoOverflowingDivision ==
    /\ call = "mdc_analyzer_execute_algorithm"
    /\ arg \in ModuloFamilyVariants
    /\ LeadsToOverflowingDivision(a, b)
    => /\ math_handle_gcd_special_cases(a, b).kind = "returns"
       /\ math_handle_gcd_special_cases(a, b).value.handled
       /\ ret.kind = "returns"

\* C29: whatever gcd_registry_* calls were made, repeated gcd_registry_init
\* and auto-initialising lookups included, the registry holds exactly seven
\* entries, one for each GcdAlgorithmVariant and all available, once it is
\* initialised; every call but gcd_registry_is_initialized leaves it
\* initialised; gcd_registry_get_count returns 7; and entry_count never
\* exceeds MAX_REGISTERED_IMPLEMENTATIONS.
C29_RegistryInitIdempotent ==
    /\ \A r \in Runs :
           LET entries == g_registry[r].entries
           IN  /\ Len(entries) <= MAX_REGISTERED_IMPLEMENTATIONS
               /\ g_registry[r].is_initialized =>
                      /\ Len(entries) = 7
                      /\ \A variant \in GcdAlgorithmVariant :
                             Cardinality({i \in 1 .. Len(entries) :
                                             entries[i].variant = variant}) = 1
                      /\ \A i \in 1 .. Len(entries) : entries[i].is_available
               /\ ~g_registry[r].is_initialized => entries = << >>
    /\ call \notin {"none", "gcd_registry_is_initialized"} =>
           g_registry[arg.run].is_initialized
    /\ call = "gcd_registry_get_count" => ret = Returns(7)

\* gcd_registry_init was called on a registry that was already initialised,
\* and the registry holds seven entries.
C29_Witness ==
    /\ call = "gcd_registry_init"
    /\ arg.was_initialized
    /\ Len(g_registry[arg.run].entries) = 7

\* C29 as stated: after any gcd_registry_* call the registry called holds
\* exactly seven entries, all available, and gcd_registry_get_count
\* returns 7.
C29_SevenEntriesAfterAnyCall ==
    call # "none" =>
        /\ Len(g_registry[arg.run].entries) = 7
        /\ \A i \in 1 .. Len(g_registry[arg.run].entries) :
               g_registry[arg.run].entries[i].is_available
        /\ call = "gcd_registry_get_count" => ret = Returns(7)

\* C30: in every run, the total_executions that system_get_status reports
\* equals the number of algorithm executions made so far by the counting
\* entry points that produced a valid result.
C30_StatisticsCountValid ==
    \A r \in Runs :
        system_get_status(g_system[r]).total_executions = valid_executions[r]

====
